---------------------------- MODULE Spec2Model ----------------------------
(***************************************************************************)
(* A model of the stream engine of package chain (src/chain.go).           *)
(*                                                                         *)
(* A caller goroutine executes a program: a source constructor, then       *)
(* Parallel / Map / Filter calls, then one terminal operation.  Every      *)
(* constructor and stage call creates a channel and spawns a goroutine;    *)
(* the goroutines, the terminal operation and the environment (the owner   *)
(* of the channel given to NewChanStream, the owner of the context given   *)
(* to Collect) interleave one channel operation at a time.                 *)
(***************************************************************************)
EXTENDS Integers, Sequences, FiniteSets

(***************************************************************************)
(* Bounds of the model.                                                    *)
(***************************************************************************)
MaxLen == 3        \* longest input sequence
MaxWorkers == 2    \* largest worker count given to Parallel
MaxParLen == 2     \* longest input sequence of a pipeline with parallel stages
MaxAnyLen == 2     \* longest input sequence of the pipelines of Spec

Values == {1, 2, 3}

VARIABLES
    prog,         \* the caller's program: a sequence of calls
    data,         \* the elements of the slice / the caller's channel / the generator
    extCloses,    \* does the owner of the channel given to NewChanStream close it
    cancellable,  \* can the context given to Collect be cancelled
    cpc,          \* the caller: index in prog of its next call
    chans,        \* the engine's channels, in creation order
    hw,           \* hw[h]: field workers of the stream wrapping chans[h]
    src,          \* the source's producer goroutine
    ext,          \* the caller's channel given to NewChanStream, and its sender
    stages,       \* stages[k]: the goroutines of the k-th Map/Filter call
    term,         \* the terminal operation, run by the caller
    ctx           \* the context given to Collect

vars == <<prog, data, extCloses, cancellable, cpc, chans, hw, src, ext, stages, term, ctx>>
config == <<prog, data, extCloses, cancellable>>

(***************************************************************************)
(* Sequences.                                                              *)
(***************************************************************************)
SeqsUpTo(S, n) == UNION {[1..m -> S] : m \in 0..n}

RECURSIVE SeqMap(_, _)
RECURSIVE SeqFilter(_, _)
RECURSIVE FoldLeft(_, _, _)
RECURSIVE BagOf(_)

(***************************************************************************)
(* The user's functions, as the tests and the README pass them.            *)
(***************************************************************************)
MapFns == {"double", "square", "seven"}
FilterFns == {"even", "gt1", "never"}
ReduceFns == {"add", "sub"}

ApplyMap(f, x) ==
    CASE f = "double" -> x * 2
      [] f = "square" -> x * x
      [] f = "seven"  -> 7

ApplyFilter(f, x) ==
    CASE f = "even"  -> x % 2 = 0
      [] f = "gt1"   -> x > 1
      [] f = "never" -> FALSE

ApplyReduce(f, a, b) ==
    CASE f = "add" -> a + b
      [] f = "sub" -> a - b

SeqMap(f, s) == IF s = <<>> THEN <<>> ELSE <<ApplyMap(f, Head(s))>> \o SeqMap(f, Tail(s))

SeqFilter(f, s) ==
    IF s = <<>> THEN <<>>
    ELSE (IF ApplyFilter(f, Head(s)) THEN <<Head(s)>> ELSE <<>>) \o SeqFilter(f, Tail(s))

FoldLeft(f, a, s) == IF s = <<>> THEN a ELSE FoldLeft(f, ApplyReduce(f, a, Head(s)), Tail(s))

\* the multiset of a sequence, as a function from its elements to their counts
BagOf(s) ==
    IF s = <<>> THEN <<>>
    ELSE LET b == BagOf(Tail(s))
             x == Head(s)
         IN  IF x \in DOMAIN b THEN [b EXCEPT ![x] = @ + 1]
             ELSE [y \in DOMAIN b \cup {x} |-> IF y = x THEN 1 ELSE b[y]]

(***************************************************************************)
(* Channels.  closes counts the close() calls, closers records who made    *)
(* them, lateSend records a send on a closed channel (both panic in Go).   *)
(***************************************************************************)
MakeChan(capacity) ==
    [buf |-> <<>>, cap |-> capacity, closes |-> 0, closers |-> {}, lateSend |-> FALSE]

\* mutant: a channel that hands out the newest element first
ChanSendFront(c, v) ==
    IF c.closes > 0 THEN [c EXCEPT !.lateSend = TRUE]
    ELSE [c EXCEPT !.buf = <<v>> \o @]

\* mutant: a channel with room for one element more than its capacity
CanSendOneMore(c) == c.closes > 0 \/ Len(c.buf) < c.cap + 1

\* a send completes on a channel with room (and panics on a closed one)
CanSend(c) == c.closes > 0 \/ Len(c.buf) < c.cap
ChanSend(c, v) ==
    IF c.closes > 0 THEN [c EXCEPT !.lateSend = TRUE]
    ELSE [c EXCEPT !.buf = Append(@, v)]
CanRecv(c) == Len(c.buf) > 0
ChanRecv(c) == [c EXCEPT !.buf = Tail(@)]
Exhausted(c) == c.closes > 0 /\ Len(c.buf) = 0
ChanClose(c, who) == [c EXCEPT !.closes = @ + 1, !.closers = @ \cup {who}]

Task(role, k) == [role |-> role, k |-> k]

\* a double close or a send on a closed channel panics
Panicked == \E c \in 1..Len(chans) : chans[c].closes > 1 \/ chans[c].lateSend

(***************************************************************************)
(* Programs.                                                               *)
(***************************************************************************)
Call(op, n, f) == [op |-> op, n |-> n, f |-> f]
ZeroValue == 0     \* var result T
GenLast == 0       \* the value the tests' generators return with ok = false
ExtCap == 1        \* capacity of the caller's channel given to NewChanStream

NoSrc == [kind |-> "none", pc |-> "none", i |-> 0, hold |-> ZeroValue]
NoExt == [buf |-> <<>>, closed |-> FALSE, sent |-> 0]
\* result, acc, first are the locals of Collect and Reduce; calls logs the
\* arguments of every invocation of the user's function by Reduce / ForEach;
\* arrived logs the elements received; retSeq, retVal, err are what was
\* returned (err = "none" until the operation returns).
NoTerm ==
    [kind |-> "none", pc |-> "none", ch |-> 0, fn |-> "", result |-> <<>>,
     acc |-> ZeroValue, first |-> TRUE, calls |-> <<>>, arrived |-> <<>>,
     retSeq |-> <<>>, retVal |-> ZeroValue, err |-> "none"]

InitWith(Progs, Datas, Closes, Cancels) ==
    /\ prog \in Progs
    /\ data \in Datas
    /\ extCloses \in Closes
    /\ cancellable \in Cancels
    /\ cpc = 1
    /\ chans = <<>>
    /\ hw = <<>>
    /\ src = NoSrc
    /\ ext = NoExt
    /\ stages = <<>>
    /\ term = NoTerm
    /\ ctx = "active"

(***************************************************************************)
(* Source constructors and their producer goroutines.                      *)
(***************************************************************************)
Calling(op) == cpc <= Len(prog) /\ prog[cpc].op = op

\* mutant: the channel of a slice gets capacity 1, as the other sources'
CallNewSliceStreamCap1 ==
    /\ Calling("NewSliceStream")
    /\ chans' = Append(chans, MakeChan(1))
    /\ hw' = Append(hw, 1)
    /\ src' = [kind |-> "slice", pc |-> "send", i |-> 1, hold |-> ZeroValue]
    /\ cpc' = cpc + 1
    /\ UNCHANGED <<config, ext, stages, term, ctx>>

CallNewSliceStream ==
    /\ Calling("NewSliceStream")
    /\ chans' = Append(chans, MakeChan(Len(data)))
    /\ hw' = Append(hw, 1)
    /\ src' = [kind |-> "slice", pc |-> "send", i |-> 1, hold |-> ZeroValue]
    /\ cpc' = cpc + 1
    /\ UNCHANGED <<config, ext, stages, term, ctx>>

SliceSend ==
    /\ src.kind = "slice" /\ src.pc = "send"
    /\ src.i <= Len(data)
    /\ CanSend(chans[1])
    /\ chans' = [chans EXCEPT ![1] = ChanSend(@, data[src.i])]
    /\ src' = [src EXCEPT !.i = @ + 1]
    /\ UNCHANGED <<config, cpc, hw, ext, stages, term, ctx>>

SliceClose ==
    /\ src.kind = "slice" /\ src.pc = "send"
    /\ src.i > Len(data)
    /\ chans' = [chans EXCEPT ![1] = ChanClose(@, Task("source", 0))]
    /\ src' = [src EXCEPT !.pc = "done"]
    /\ UNCHANGED <<config, cpc, hw, ext, stages, term, ctx>>

CallNewChanStream ==
    /\ Calling("NewChanStream")
    /\ chans' = Append(chans, MakeChan(1))
    /\ hw' = Append(hw, 1)
    /\ src' = [kind |-> "chan", pc |-> "recv", i |-> 0, hold |-> ZeroValue]
    /\ cpc' = cpc + 1
    /\ UNCHANGED <<config, ext, stages, term, ctx>>

\* the owner of the caller's channel sends data on it, one element at a time
ExtSend ==
    /\ prog[1].op = "NewChanStream"
    /\ ~ext.closed
    /\ ext.sent < Len(data)
    /\ Len(ext.buf) < ExtCap
    /\ ext' = [ext EXCEPT !.buf = Append(@, data[ext.sent + 1]), !.sent = @ + 1]
    /\ UNCHANGED <<config, cpc, chans, hw, src, stages, term, ctx>>

ExtClose ==
    /\ prog[1].op = "NewChanStream"
    /\ extCloses
    /\ ~ext.closed
    /\ ext.sent = Len(data)
    /\ ext' = [ext EXCEPT !.closed = TRUE]
    /\ UNCHANGED <<config, cpc, chans, hw, src, stages, term, ctx>>

RelayRecv ==
    /\ src.kind = "chan" /\ src.pc = "recv"
    /\ Len(ext.buf) > 0
    /\ ext' = [ext EXCEPT !.buf = Tail(@)]
    /\ src' = [src EXCEPT !.pc = "send", !.hold = Head(ext.buf), !.i = @ + 1]
    /\ UNCHANGED <<config, cpc, chans, hw, stages, term, ctx>>

RelaySend ==
    /\ src.kind = "chan" /\ src.pc = "send"
    /\ CanSend(chans[1])
    /\ chans' = [chans EXCEPT ![1] = ChanSend(@, src.hold)]
    /\ src' = [src EXCEPT !.pc = "recv"]
    /\ UNCHANGED <<config, cpc, hw, ext, stages, term, ctx>>

\* mutant: the relay takes an empty caller's channel for a closed one
RelayCloseOnEmpty ==
    /\ src.kind = "chan" /\ src.pc = "recv"
    /\ Len(ext.buf) = 0
    /\ chans' = [chans EXCEPT ![1] = ChanClose(@, Task("source", 0))]
    /\ src' = [src EXCEPT !.pc = "done"]
    /\ UNCHANGED <<config, cpc, hw, ext, stages, term, ctx>>

\* the range over ch ends when ch is closed and drained; defer close(source)
RelayClose ==
    /\ src.kind = "chan" /\ src.pc = "recv"
    /\ ext.closed /\ Len(ext.buf) = 0
    /\ chans' = [chans EXCEPT ![1] = ChanClose(@, Task("source", 0))]
    /\ src' = [src EXCEPT !.pc = "done"]
    /\ UNCHANGED <<config, cpc, hw, ext, stages, term, ctx>>

CallGenerator ==
    /\ Calling("Generator")
    /\ chans' = Append(chans, MakeChan(1))
    /\ hw' = Append(hw, 1)
    /\ src' = [kind |-> "gen", pc |-> "call", i |-> 0, hold |-> ZeroValue]
    /\ cpc' = cpc + 1
    /\ UNCHANGED <<config, ext, stages, term, ctx>>

\* the generator of the tests: its n-th call yields data[n], and every call
\* after the last element yields (GenLast, false)
GenValue(n) == IF n <= Len(data) THEN data[n] ELSE GenLast
GenOk(n) == n <= Len(data)

\* mutant: the item is sent before ok is looked at, so the item returned
\* with ok = false is sent too
GenCallSendsFirst ==
    /\ src.kind = "gen" /\ src.pc = "call"
    /\ LET n == src.i + 1 IN
        src' = [src EXCEPT !.i = n, !.hold = GenValue(n),
                           !.pc = IF n = 1 \/ GenOk(n - 1) THEN "send" ELSE "close"]
    /\ UNCHANGED <<config, cpc, chans, hw, ext, stages, term, ctx>>

\* mutant: the producer calls gen once more after it reported exhaustion
GenCallRetries ==
    /\ src.kind = "gen" /\ src.pc = "call"
    /\ LET n == src.i + 1 IN
        src' = [src EXCEPT !.i = n, !.hold = GenValue(n),
                           !.pc = IF GenOk(n) THEN "send"
                                  ELSE IF GenOk(n - 1) \/ n = 1 THEN "call" ELSE "close"]
    /\ UNCHANGED <<config, cpc, chans, hw, ext, stages, term, ctx>>

\* item, ok := gen(); if !ok { return }   (the deferred close follows)
GenCall ==
    /\ src.kind = "gen" /\ src.pc = "call"
    /\ LET n == src.i + 1 IN
        src' = [src EXCEPT !.i = n, !.hold = GenValue(n),
                           !.pc = IF GenOk(n) THEN "send" ELSE "close"]
    /\ UNCHANGED <<config, cpc, chans, hw, ext, stages, term, ctx>>

GenSend ==
    /\ src.kind = "gen" /\ src.pc = "send"
    /\ CanSend(chans[1])
    /\ chans' = [chans EXCEPT ![1] = ChanSend(@, src.hold)]
    /\ src' = [src EXCEPT !.pc = "call"]
    /\ UNCHANGED <<config, cpc, hw, ext, stages, term, ctx>>

GenClose ==
    /\ src.kind = "gen" /\ src.pc = "close"
    /\ chans' = [chans EXCEPT ![1] = ChanClose(@, Task("source", 0))]
    /\ src' = [src EXCEPT !.pc = "done"]
    /\ UNCHANGED <<config, cpc, hw, ext, stages, term, ctx>>

(***************************************************************************)
(* Parallel, Map and Filter.                                               *)
(***************************************************************************)
Cur == Len(chans)   \* the stream the caller holds wraps the newest channel

\* mutant: Parallel stores the count it is given
CoerceNone(n) == n

\* if workers <= 0 { workers = 1 }
CoerceWorkers(n) == IF n <= 0 THEN 1 ELSE n

CallParallel ==
    /\ Calling("Parallel")
    /\ hw' = [hw EXCEPT ![Cur] = CoerceWorkers(prog[cpc].n)]
    /\ cpc' = cpc + 1
    /\ UNCHANGED <<config, chans, src, ext, stages, term, ctx>>

NewStage(kind, f) ==
    [kind |-> kind, fn |-> f, pc |-> "start", hold |-> ZeroValue, i |-> 0,
     wg |-> 0, w |-> <<>>]

\* out := make(chan R, s.workers); go func() {...}();
\* return &stream{source: out, workers: s.workers}
CallStage(kind) ==
    /\ chans' = Append(chans, MakeChan(hw[Cur]))
    /\ hw' = Append(hw, hw[Cur])
    /\ stages' = Append(stages, NewStage(kind, prog[cpc].f))
    /\ cpc' = cpc + 1
    /\ UNCHANGED <<config, src, ext, term, ctx>>

\* s.Parallel(n) on the Stream a stage was just called on: the caller kept s
\* in  m := s.Map(fn); s.Parallel(n); m.Collect(ctx).  The goroutine of that
\* stage holds the same *stream and reads s.workers with no synchronisation.
CallParallelPrev ==
    /\ Calling("ParallelPrev")
    /\ Cur > 1
    /\ hw' = [hw EXCEPT ![Cur - 1] = CoerceWorkers(prog[cpc].n)]
    /\ cpc' = cpc + 1
    /\ UNCHANGED <<config, chans, src, ext, stages, term, ctx>>

CallMap == Calling("Map") /\ CallStage("map")

CallFilter == Calling("Filter") /\ CallStage("filter")

\* mutants: a stage that forgets to apply fn, a filter that ignores its predicate
StageValueUnapplied(st, x) == x
StageKeepsAll(st, x) == TRUE

\* what a stage goroutine does with an element it received: the value it
\* will send downstream, and whether it sends at all
StageValue(st, x) == IF st.kind = "map" THEN ApplyMap(st.fn, x) ELSE x
StageKeeps(st, x) == IF st.kind = "map" THEN TRUE ELSE ApplyFilter(st.fn, x)

\* if s.workers == 1 { sequential } else { parallel }
StageStart(k) ==
    /\ stages[k].pc = "start"
    /\ stages' = [stages EXCEPT ![k].pc = IF hw[k] = 1 THEN "recv" ELSE "spawn"]
    /\ UNCHANGED <<config, cpc, chans, hw, src, ext, term, ctx>>

SeqRecv(k) ==
    /\ stages[k].pc = "recv"
    /\ CanRecv(chans[k])
    /\ LET x == Head(chans[k].buf) IN
        stages' = [stages EXCEPT
            ![k].hold = IF StageKeeps(stages[k], x) THEN StageValue(stages[k], x) ELSE @,
            ![k].pc = IF StageKeeps(stages[k], x) THEN "send" ELSE "recv"]
    /\ chans' = [chans EXCEPT ![k] = ChanRecv(@)]
    /\ UNCHANGED <<config, cpc, hw, src, ext, term, ctx>>

\* mutant: a send that gives up when the output channel is full
SeqSendOrDrop(k) ==
    /\ stages[k].pc = "send"
    /\ chans' = [chans EXCEPT ![k + 1] =
                    IF CanSend(@) THEN ChanSend(@, stages[k].hold) ELSE @]
    /\ stages' = [stages EXCEPT ![k].pc = "recv"]
    /\ UNCHANGED <<config, cpc, hw, src, ext, term, ctx>>

SeqSend(k) ==
    /\ stages[k].pc = "send"
    /\ CanSend(chans[k + 1])
    /\ chans' = [chans EXCEPT ![k + 1] = ChanSend(@, stages[k].hold)]
    /\ stages' = [stages EXCEPT ![k].pc = "recv"]
    /\ UNCHANGED <<config, cpc, hw, src, ext, term, ctx>>

\* the range loop ends: return, and the deferred close(out) is next
SeqExit(k) ==
    /\ stages[k].pc = "recv"
    /\ Exhausted(chans[k])
    /\ stages' = [stages EXCEPT ![k].pc = "close"]
    /\ UNCHANGED <<config, cpc, chans, hw, src, ext, term, ctx>>

\* for i := 0; i < s.workers; i++ { wg.Add(1); go func() {...}() }
SpawnWorker(k) ==
    /\ stages[k].pc = "spawn"
    /\ stages[k].i < hw[k]
    /\ stages' = [stages EXCEPT
            ![k].i = @ + 1,
            ![k].wg = @ + 1,
            ![k].w = Append(@, [pc |-> "recv", hold |-> ZeroValue])]
    /\ UNCHANGED <<config, cpc, chans, hw, src, ext, term, ctx>>

SpawnDone(k) ==
    /\ stages[k].pc = "spawn"
    /\ ~(stages[k].i < hw[k])
    /\ stages' = [stages EXCEPT ![k].pc = "wait"]
    /\ UNCHANGED <<config, cpc, chans, hw, src, ext, term, ctx>>

WorkerRecv(k, j) ==
    /\ stages[k].w[j].pc = "recv"
    /\ CanRecv(chans[k])
    /\ LET x == Head(chans[k].buf) IN
        stages' = [stages EXCEPT
            ![k].w[j].hold = IF StageKeeps(stages[k], x) THEN StageValue(stages[k], x) ELSE @,
            ![k].w[j].pc = IF StageKeeps(stages[k], x) THEN "send" ELSE "recv"]
    /\ chans' = [chans EXCEPT ![k] = ChanRecv(@)]
    /\ UNCHANGED <<config, cpc, hw, src, ext, term, ctx>>

WorkerSend(k, j) ==
    /\ stages[k].w[j].pc = "send"
    /\ CanSend(chans[k + 1])
    /\ chans' = [chans EXCEPT ![k + 1] = ChanSend(@, stages[k].w[j].hold)]
    /\ stages' = [stages EXCEPT ![k].w[j].pc = "recv"]
    /\ UNCHANGED <<config, cpc, hw, src, ext, term, ctx>>

\* mutant: every worker closes out when its loop ends
WorkerExitCloses(k, j) ==
    /\ stages[k].w[j].pc = "recv"
    /\ Exhausted(chans[k])
    /\ stages' = [stages EXCEPT ![k].w[j].pc = "done", ![k].wg = @ - 1]
    /\ chans' = [chans EXCEPT ![k + 1] = ChanClose(@, Task("stage", k))]
    /\ UNCHANGED <<config, cpc, hw, src, ext, term, ctx>>

\* the worker's range loop ends: the deferred wg.Done()
WorkerExit(k, j) ==
    /\ stages[k].w[j].pc = "recv"
    /\ Exhausted(chans[k])
    /\ stages' = [stages EXCEPT ![k].w[j].pc = "done", ![k].wg = @ - 1]
    /\ UNCHANGED <<config, cpc, chans, hw, src, ext, term, ctx>>

\* mutant: no barrier, the stage goes on to close(out) with workers running
StageWaitNoBarrier(k) ==
    /\ stages[k].pc = "wait"
    /\ stages' = [stages EXCEPT ![k].pc = "close"]
    /\ UNCHANGED <<config, cpc, chans, hw, src, ext, term, ctx>>

\* mutant: the wait ends as soon as one worker has returned
StageWaitAny(k) ==
    /\ stages[k].pc = "wait"
    /\ stages[k].wg < Len(stages[k].w)
    /\ stages' = [stages EXCEPT ![k].pc = "close"]
    /\ UNCHANGED <<config, cpc, chans, hw, src, ext, term, ctx>>

\* wg.Wait() returns
StageWait(k) ==
    /\ stages[k].pc = "wait"
    /\ stages[k].wg = 0
    /\ stages' = [stages EXCEPT ![k].pc = "close"]
    /\ UNCHANGED <<config, cpc, chans, hw, src, ext, term, ctx>>

\* mutant: the stage goroutine returns without closing out
StageReturnsUnclosed(k) ==
    /\ stages[k].pc = "close"
    /\ stages' = [stages EXCEPT ![k].pc = "done"]
    /\ UNCHANGED <<config, cpc, chans, hw, src, ext, term, ctx>>

\* defer close(out)
StageClose(k) ==
    /\ stages[k].pc = "close"
    /\ chans' = [chans EXCEPT ![k + 1] = ChanClose(@, Task("stage", k))]
    /\ stages' = [stages EXCEPT ![k].pc = "done"]
    /\ UNCHANGED <<config, cpc, hw, src, ext, term, ctx>>

(***************************************************************************)
(* Terminal operations.  They run in the caller's goroutine.               *)
(***************************************************************************)
StartTerm(kind) ==
    /\ term' = [NoTerm EXCEPT !.kind = kind, !.ch = Cur, !.fn = prog[cpc].f,
                              !.pc = IF kind = "collect" THEN "select" ELSE "recv"]
    /\ cpc' = cpc + 1
    /\ UNCHANGED <<config, chans, hw, src, ext, stages, ctx>>

CallCollect == Calling("Collect") /\ StartTerm("collect")

\* mutant: the new item is put in front
CollectPrepend(result, item) == <<item>> \o result

\* result = append(result, item)
CollectAppend(result, item) == Append(result, item)

\* what Collect returns when the channel is closed, and when ctx is done
CollectOnClosed(result) == result
CollectOnDone(result) == <<>>

\* mutant: the select has no case for ctx.Done()
DoneNeverReady == FALSE

\* which cases of Collect's select can proceed; Go picks any one of those
\* that can, and takes default only if none can
RecvReady == CanRecv(chans[term.ch]) \/ Exhausted(chans[term.ch])
DoneReady == ctx # "active"

\* case item, ok := <-s.source, ok = true
CollectRecv ==
    /\ term.kind = "collect" /\ term.pc = "select"
    /\ CanRecv(chans[term.ch])
    /\ LET x == Head(chans[term.ch].buf) IN
        term' = [term EXCEPT !.result = CollectAppend(@, x), !.arrived = Append(@, x)]
    /\ chans' = [chans EXCEPT ![term.ch] = ChanRecv(@)]
    /\ UNCHANGED <<config, cpc, hw, src, ext, stages, ctx>>

\* case item, ok := <-s.source, ok = false: return result, nil
CollectClosed ==
    /\ term.kind = "collect" /\ term.pc = "select"
    /\ Exhausted(chans[term.ch])
    /\ term' = [term EXCEPT !.retSeq = CollectOnClosed(term.result), !.err = "nil",
                            !.pc = "done"]
    /\ UNCHANGED <<config, cpc, chans, hw, src, ext, stages, ctx>>

\* case <-ctx.Done(): return nil, ctx.Err()
CollectCancel ==
    /\ term.kind = "collect" /\ term.pc = "select"
    /\ DoneReady
    /\ term' = [term EXCEPT !.retSeq = CollectOnDone(term.result), !.err = ctx,
                            !.pc = "done"]
    /\ UNCHANGED <<config, cpc, chans, hw, src, ext, stages, ctx>>

\* default: time.Sleep(1 * time.Millisecond)
CollectDefault ==
    /\ term.kind = "collect" /\ term.pc = "select"
    /\ ~RecvReady /\ ~DoneReady
    /\ term' = [term EXCEPT !.pc = "sleep"]
    /\ UNCHANGED <<config, cpc, chans, hw, src, ext, stages, ctx>>

CollectWake ==
    /\ term.kind = "collect" /\ term.pc = "sleep"
    /\ term' = [term EXCEPT !.pc = "select"]
    /\ UNCHANGED <<config, cpc, chans, hw, src, ext, stages, ctx>>

\* the owner of the context cancels it, or its deadline passes
Cancel ==
    /\ cancellable
    /\ ctx = "active"
    /\ term.pc # "done"
    /\ ctx' \in {"Canceled", "DeadlineExceeded"}
    /\ UNCHANGED <<config, cpc, chans, hw, src, ext, stages, term>>

CallReduce == Calling("Reduce") /\ StartTerm("reduce")

\* mutant: the accumulator is passed as the second argument
ReduceStepSwapped(t, x) ==
    IF t.first THEN [t EXCEPT !.acc = x, !.first = FALSE, !.arrived = Append(@, x)]
    ELSE [t EXCEPT !.acc = ApplyReduce(t.fn, x, t.acc),
                   !.calls = Append(@, <<x, t.acc>>),
                   !.arrived = Append(@, x)]

\* one iteration of Reduce's range loop on item x
ReduceStep(t, x) ==
    IF t.first THEN [t EXCEPT !.acc = x, !.first = FALSE, !.arrived = Append(@, x)]
    ELSE [t EXCEPT !.acc = ApplyReduce(t.fn, t.acc, x),
                   !.calls = Append(@, <<t.acc, x>>),
                   !.arrived = Append(@, x)]

ReduceRecv ==
    /\ term.kind = "reduce" /\ term.pc = "recv"
    /\ CanRecv(chans[term.ch])
    /\ term' = ReduceStep(term, Head(chans[term.ch].buf))
    /\ chans' = [chans EXCEPT ![term.ch] = ChanRecv(@)]
    /\ UNCHANGED <<config, cpc, hw, src, ext, stages, ctx>>

\* mutant: the empty stream is not reported
ReduceReturnNil(t) == [t EXCEPT !.retVal = t.acc, !.err = "nil", !.pc = "done"]

\* if first { return result, ErrEmptyStream }; return result, nil
ReduceReturn(t) ==
    [t EXCEPT !.retVal = t.acc,
              !.err = IF t.first THEN "ErrEmptyStream" ELSE "nil",
              !.pc = "done"]

\* mutant: Reduce gives up when the caller's context is done
ReduceExitOnDone ==
    /\ term.kind = "reduce" /\ term.pc = "recv"
    /\ Exhausted(chans[term.ch]) \/ ctx # "active"
    /\ term' = ReduceReturn(term)
    /\ UNCHANGED <<config, cpc, chans, hw, src, ext, stages, ctx>>

ReduceExit ==
    /\ term.kind = "reduce" /\ term.pc = "recv"
    /\ Exhausted(chans[term.ch])
    /\ term' = ReduceReturn(term)
    /\ UNCHANGED <<config, cpc, chans, hw, src, ext, stages, ctx>>

CallForEach == Calling("ForEach") /\ StartTerm("foreach")

\* mutant: fn is not invoked for an element equal to the one before it
ForEachStepSkipsRepeat(t, x) ==
    [t EXCEPT !.calls = IF t.arrived # <<>> /\ t.arrived[Len(t.arrived)] = x
                        THEN @ ELSE Append(@, <<x>>),
              !.arrived = Append(@, x)]

\* for item := range s.source { fn(item) }
ForEachStep(t, x) == [t EXCEPT !.calls = Append(@, <<x>>), !.arrived = Append(@, x)]

ForEachRecv ==
    /\ term.kind = "foreach" /\ term.pc = "recv"
    /\ CanRecv(chans[term.ch])
    /\ term' = ForEachStep(term, Head(chans[term.ch].buf))
    /\ chans' = [chans EXCEPT ![term.ch] = ChanRecv(@)]
    /\ UNCHANGED <<config, cpc, hw, src, ext, stages, ctx>>

ForEachExit ==
    /\ term.kind = "foreach" /\ term.pc = "recv"
    /\ Exhausted(chans[term.ch])
    /\ term' = [term EXCEPT !.err = "nil", !.pc = "done"]
    /\ UNCHANGED <<config, cpc, chans, hw, src, ext, stages, ctx>>

(***************************************************************************)
(* Groups of actions.                                                      *)
(***************************************************************************)
SliceSource == CallNewSliceStream \/ SliceSend \/ SliceClose
ChanSource == CallNewChanStream \/ ExtSend \/ RelayRecv \/ RelaySend
ChanSourceEnd == ExtClose \/ RelayClose
GenSource == CallGenerator \/ GenCall \/ GenSend \/ GenClose
StageTask ==
    \/ \E k \in 1..Len(stages) : StageStart(k)
    \/ \E k \in 1..Len(stages) : StageClose(k)
SeqLoop ==
    \/ \E k \in 1..Len(stages) : SeqRecv(k)
    \/ \E k \in 1..Len(stages) : SeqSend(k)
    \/ \E k \in 1..Len(stages) : SeqExit(k)
SeqStage == StageTask \/ SeqLoop
ParStage ==
    \/ \E k \in 1..Len(stages) : SpawnWorker(k)
    \/ \E k \in 1..Len(stages) : SpawnDone(k)
    \/ \E k \in 1..Len(stages) : StageWait(k)
    \/ \E k \in 1..Len(stages) : \E j \in 1..Len(stages[k].w) : WorkerRecv(k, j)
    \/ \E k \in 1..Len(stages) : \E j \in 1..Len(stages[k].w) : WorkerSend(k, j)
    \/ \E k \in 1..Len(stages) : \E j \in 1..Len(stages[k].w) : WorkerExit(k, j)
CollectOp == CallCollect \/ CollectRecv \/ CollectClosed \/ CollectDefault \/ CollectWake
ReduceOp == CallReduce \/ ReduceRecv \/ ReduceExit
ForEachOp == CallForEach \/ ForEachRecv \/ ForEachExit

(***************************************************************************)
(* Programs and specifications.                                            *)
(***************************************************************************)
Datas == SeqsUpTo(Values, MaxLen)
NoArg == ""
SourceCalls == {Call(op, 0, NoArg) : op \in {"NewSliceStream", "NewChanStream", "Generator"}}
MapCalls == {Call("Map", 0, f) : f \in MapFns}
FilterCalls == {Call("Filter", 0, f) : f \in FilterFns}
StageCalls == MapCalls \cup FilterCalls
CollectCall == Call("Collect", 0, NoArg)
ReduceCalls == {Call("Reduce", 0, f) : f \in ReduceFns}
ForEachCall == Call("ForEach", 0, NoArg)
SliceCall == Call("NewSliceStream", 0, NoArg)

\* sequential pipelines over a slice: no stage or one stage, then Collect
SeqProgs ==
    {<<SliceCall, CollectCall>>} \cup {<<SliceCall, st, CollectCall>> : st \in StageCalls}

InitSeq == InitWith(SeqProgs, Datas, {FALSE}, {FALSE})
NextSeq == SliceSource \/ CallMap \/ CallFilter \/ SeqStage \/ CollectOp
SpecSeq == InitSeq /\ [][NextSeq]_vars

(***************************************************************************)
(* Properties of sequential pipelines (SpecSeq).                           *)
(***************************************************************************)
Returned == term.pc = "done"
IsPrefix(s, t) == Len(s) <= Len(t) /\ SubSeq(t, 1, Len(s)) = s
Distinct(s) == \A i, j \in 1..Len(s) : i # j => s[i] # s[j]

\* C1: with worker count 1, Collect on NewSliceStream(S).Map(f) returns
\* f(S[1]), ..., f(S[n]) in this order with a nil error, whatever the
\* interleaving of the producer, the stage goroutine and Collect.
C1_MapCollect ==
    (Returned /\ Len(prog) = 3 /\ prog[2].op = "Map" /\ hw[1] = 1)
        => /\ term.err = "nil"
           /\ term.retSeq = SeqMap(prog[2].f, data)

C1_Witness ==
    /\ Returned /\ Len(prog) = 3 /\ prog[2].op = "Map" /\ hw[1] = 1
    /\ Len(data) = MaxLen /\ Distinct(data)
    /\ term.retSeq = SeqMap(prog[2].f, data)
    /\ term.retSeq # data

\* C2: with worker count 1, Collect on NewSliceStream(S).Filter(p) returns
\* the subsequence of S of the elements satisfying p, in the order of S,
\* with a nil error.
C2_FilterCollect ==
    (Returned /\ Len(prog) = 3 /\ prog[2].op = "Filter" /\ hw[1] = 1)
        => /\ term.err = "nil"
           /\ term.retSeq = SeqFilter(prog[2].f, data)
           /\ \A i \in 1..Len(term.retSeq) : ApplyFilter(prog[2].f, term.retSeq[i])

C2_Witness ==
    /\ Returned /\ Len(prog) = 3 /\ prog[2].op = "Filter" /\ hw[1] = 1
    /\ Len(data) = MaxLen /\ Distinct(data)
    /\ term.retSeq = SeqFilter(prog[2].f, data)
    /\ Len(term.retSeq) \in 1..(MaxLen - 1)

\* C9: when the context is never cancelled, Collect has not returned until
\* it has seen the channel closed and drained, it returns success, and the
\* sequence returned is the elements it received, in arrival order; for
\* NewSliceStream(S) with no stage that is S.
C9_CollectAll ==
    /\ (term.kind = "collect" /\ ~Returned) => term.err = "none"
    /\ (term.kind = "collect" /\ Returned /\ ctx = "active")
          => /\ term.err = "nil"
             /\ Exhausted(chans[term.ch])
             /\ term.retSeq = term.arrived
             /\ (Len(prog) = 2 => term.retSeq = data)

C9_Witness ==
    /\ term.kind = "collect" /\ Returned /\ ctx = "active"
    /\ Len(prog) = 2
    /\ term.retSeq = data /\ Len(data) = MaxLen /\ Distinct(data)

\* a slice, no stage or one Filter, then Reduce
ReduceProgs ==
    {<<SliceCall, r>> : r \in ReduceCalls}
        \cup {<<SliceCall, st, r>> : st \in FilterCalls, r \in ReduceCalls}

InitReduce == InitWith(ReduceProgs, Datas, {FALSE}, {FALSE})
NextReduce == SliceSource \/ CallFilter \/ SeqStage \/ ReduceOp
SpecReduce == InitReduce /\ [][NextReduce]_vars

\* a generator, then Collect
GenProgs == {<<Call("Generator", 0, NoArg), CollectCall>>}

InitGen == InitWith(GenProgs, Datas, {FALSE}, {FALSE})
NextGen == GenSource \/ CollectOp
SpecGen == InitGen /\ [][NextGen]_vars

(***************************************************************************)
(* Properties of Reduce (SpecReduce) and of Generator (SpecGen).           *)
(***************************************************************************)
\* C4: Reduce returns ErrEmptyStream exactly when it received no element
\* before the channel was closed; it then returns the zero value and has
\* not invoked the reducing function.
C4_ReduceEmpty ==
    (term.kind = "reduce" /\ Returned)
        => /\ term.err \in {"nil", "ErrEmptyStream"}
           /\ term.err = "ErrEmptyStream" <=> term.arrived = <<>>
           /\ term.arrived = <<>> => (term.retVal = ZeroValue /\ term.calls = <<>>)

C4_Witness ==
    /\ term.kind = "reduce" /\ Returned
    /\ term.err = "ErrEmptyStream"
    /\ Len(prog) = 3 /\ Len(data) = MaxLen

\* C5: Reduce on a stream delivering e1..ek, k >= 1, returns the left fold
\* fn(...fn(fn(e1, e2), e3)..., ek) with a nil error: e1 is the first
\* accumulator, fn is invoked k-1 times, the i-th time on the accumulator
\* and e(i+1), and a single element is returned as it is.
C5_ReduceFold ==
    (term.kind = "reduce" /\ Returned /\ term.arrived # <<>>)
        => /\ term.err = "nil"
           /\ term.retVal = FoldLeft(term.fn, Head(term.arrived), Tail(term.arrived))
           /\ Len(term.calls) = Len(term.arrived) - 1
           /\ \A i \in 1..Len(term.calls) : term.calls[i][2] = term.arrived[i + 1]
           /\ Len(term.arrived) = 1 => term.retVal = term.arrived[1]
           /\ Len(prog) = 2 => term.arrived = data
           /\ Len(prog) = 3 => term.arrived = SeqFilter(prog[2].f, data)

C5_Witness ==
    /\ term.kind = "reduce" /\ Returned
    /\ term.fn = "sub" /\ Len(prog) = 2
    /\ Len(data) = MaxLen /\ Distinct(data)
    /\ term.retVal = (data[1] - data[2]) - data[3]
    /\ term.retVal # data[1] - (data[2] - data[3])

\* C6: Collect on Generator(gen), gen yielding data[1..k] before it reports
\* exhaustion, receives a prefix of data at any time and returns exactly
\* data with a nil error; the value gen returns with ok = false is never
\* emitted.
C6_GeneratorCollect ==
    (prog[1].op = "Generator")
        => /\ IsPrefix(term.arrived, data)
           /\ \A c \in 1..Len(chans) : \A i \in 1..Len(chans[c].buf) : chans[c].buf[i] # GenLast
           /\ Returned => (term.err = "nil" /\ term.retSeq = data)

C6_Witness ==
    /\ prog[1].op = "Generator" /\ Returned
    /\ term.retSeq = data /\ Len(data) = MaxLen /\ Distinct(data)
    /\ src.i = Len(data) + 1 /\ src.hold = GenLast

\* a caller's channel that is closed or left open, then a Collect whose
\* context can be cancelled
CancelProgs == {<<Call("NewChanStream", 0, NoArg), CollectCall>>}

InitCancel == InitWith(CancelProgs, Datas, BOOLEAN, {TRUE})
NextCancel == ChanSource \/ ChanSourceEnd \/ CollectOp \/ CollectCancel \/ Cancel
SpecCancel == InitCancel /\ [][NextCancel]_vars

\* The caller's goroutine and the relay are scheduled; a sleep ends; a select
\* whose ctx.Done() case stays ready takes it eventually (Go chooses among
\* the ready cases uniformly at random).  Nothing forces the environment to
\* send, to close or to cancel.
FairCancel ==
    /\ WF_vars(CallNewChanStream \/ CallCollect)
    /\ WF_vars(RelayRecv \/ RelaySend \/ RelayClose)
    /\ WF_vars(CollectWake)
    /\ WF_vars(CollectCancel)
FairSpecCancel == SpecCancel /\ FairCancel

(***************************************************************************)
(* Properties of cancellation (SpecCancel, FairSpecCancel).                *)
(***************************************************************************)
\* C7: on a source that is never closed, whether it delivers elements or
\* not, Collect never returns success, and once the context is done Collect
\* eventually returns the context's error with no data.
C7_CancelLiveness ==
    /\ [](~extCloses => term.err # "nil")
    /\ (~extCloses /\ ctx # "active")
          ~> (Returned /\ term.err = ctx /\ term.retSeq = <<>>)

C7_Witness ==
    /\ ~extCloses /\ Returned
    /\ term.err = "DeadlineExceeded" /\ term.retSeq = <<>>
    /\ Len(term.arrived) = MaxLen

\* C8 as claimed: once the context is done and Collect has not yet returned,
\* Collect receives no further element and does not return success.
C8_CancelImmediate ==
    [][(ctx # "active" /\ term.pc = "select")
          => (term'.arrived = term.arrived /\ term'.err # "nil")]_vars

\* C8 as claimed, its final result: Collect does not return success when
\* the context was done before it returned.
C8_NoSuccessAfterCancel ==
    (term.kind = "collect" /\ Returned /\ ctx # "active") => term.err # "nil"

\* a slice, Parallel(n) with n > 1, one or two stages, then Collect
ParallelCalls == {Call("Parallel", n, NoArg) : n \in 2..MaxWorkers}
ParStageCalls == {Call("Map", 0, "double"), Call("Filter", 0, "even")}
OneStageParProgs ==
    {<<SliceCall, par, st, CollectCall>> : par \in ParallelCalls, st \in ParStageCalls}
TwoStageParProgs ==
    {<<SliceCall, Call("Parallel", 2, NoArg), Call("Filter", 0, "gt1"),
       Call("Map", 0, "square"), CollectCall>>}
ParProgs == OneStageParProgs \cup TwoStageParProgs

ParDatas == SeqsUpTo({1, 2}, MaxParLen)
InitPar == InitWith(ParProgs, ParDatas, {FALSE}, {FALSE})
NextPar == SliceSource \/ CallParallel \/ CallMap \/ CallFilter \/ StageTask \/ ParStage \/ CollectOp
SpecPar == InitPar /\ [][NextPar]_vars

(***************************************************************************)
(* Properties of parallel stages (SpecPar).                                *)
(***************************************************************************)
RECURSIVE ApplyStages(_, _)
RECURSIVE Flatten(_)

\* the stage calls of a program, and what they make of a sequence when each
\* runs with one worker (C1, C2)
StageCallsOf(p) == SelectSeq(p, LAMBDA c : c.op \in {"Map", "Filter"})
ApplyStages(cs, s) ==
    IF cs = <<>> THEN s
    ELSE ApplyStages(Tail(cs), IF Head(cs).op = "Map" THEN SeqMap(Head(cs).f, s)
                                                      ELSE SeqFilter(Head(cs).f, s))
Expected == ApplyStages(StageCallsOf(prog), data)
StagesFrom(k) == SubSeq(StageCallsOf(prog), k, Len(StageCallsOf(prog)))

Flatten(ss) == IF ss = <<>> THEN <<>> ELSE Head(ss) \o Flatten(Tail(ss))

\* the elements still on their way, each as the output it will become: those
\* not yet sent by the producer, those buffered in a channel, and those a
\* stage goroutine holds between its receive and its send
Unsent == IF src.kind = "none" THEN data ELSE SubSeq(data, src.i, Len(data))
HeldBy(k) ==
    (IF stages[k].pc = "send" THEN <<stages[k].hold>> ELSE <<>>)
        \o Flatten([j \in 1..Len(stages[k].w) |->
                      IF stages[k].w[j].pc = "send" THEN <<stages[k].w[j].hold>> ELSE <<>>])
Pending ==
    ApplyStages(StagesFrom(1), Unsent)
        \o Flatten([c \in 1..Len(chans) |-> ApplyStages(StagesFrom(c), chans[c].buf)])
        \o Flatten([k \in 1..Len(stages) |-> ApplyStages(StagesFrom(k + 1), HeldBy(k))])

ParallelStages == {k \in 1..Len(stages) : Len(stages[k].w) > 1}

\* C3: with N > 1 workers per stage, at any time the outputs collected so
\* far together with the elements still on their way make up the multiset
\* the same stages produce with one worker, so every element is taken by one
\* worker only and none is lost; what Collect returns is that multiset.
C3_ParallelMultiset ==
    (prog[1].op = "NewSliceStream" /\ \E i \in 1..Len(prog) : prog[i].op = "Parallel" /\ prog[i].n > 1)
        => /\ BagOf(term.arrived \o Pending) = BagOf(Expected)
           /\ Returned => /\ term.err = "nil"
                          /\ Pending = <<>>
                          /\ BagOf(term.retSeq) = BagOf(Expected)

\* two workers of a stage each took an element, and the outputs were
\* collected in another order than with one worker
C3_Witness ==
    /\ Returned /\ ParallelStages # {}
    /\ Len(data) = MaxParLen
    /\ term.retSeq # Expected
    /\ Len(term.retSeq) >= 2
    /\ BagOf(term.retSeq) = BagOf(Expected)

(***************************************************************************)
(* Any pipeline: each source, no stage, a sequential stage, two sequential *)
(* stages, a parallel stage or a sequential stage followed by a parallel   *)
(* one, and each terminal operation.                                       *)
(***************************************************************************)
AnyStages ==
    {<<>>, <<Call("Map", 0, "double")>>, <<Call("Filter", 0, "even")>>,
     <<Call("Map", 0, "double"), Call("Filter", 0, "gt1")>>,
     <<Call("Parallel", 0, NoArg), Call("Map", 0, "double")>>,
     <<Call("Parallel", 2, NoArg), Call("Map", 0, "double")>>,
     <<Call("Parallel", 2, NoArg), Call("Filter", 0, "even")>>,
     <<Call("Filter", 0, "gt1"), Call("Parallel", 2, NoArg), Call("Map", 0, "square")>>}
AnyTerminals == {CollectCall, Call("Reduce", 0, "sub"), ForEachCall}
AnyProgs == {<<s>> \o m \o <<t>> : s \in SourceCalls, m \in AnyStages, t \in AnyTerminals}
AnyDatas == SeqsUpTo({1, 2}, MaxAnyLen)

\* only the owner of a caller's channel can leave it open; only Collect
\* takes a context, which its owner may cancel or not
Init ==
    /\ InitWith(AnyProgs, AnyDatas, BOOLEAN, BOOLEAN)
    /\ prog[1].op # "NewChanStream" => extCloses
    /\ cancellable <=> prog[Len(prog)].op = "Collect"
Next ==
    \/ SliceSource \/ ChanSource \/ ChanSourceEnd \/ GenSource
    \/ CallParallel \/ CallMap \/ CallFilter \/ SeqStage \/ ParStage
    \/ CollectOp \/ CollectCancel \/ Cancel \/ ReduceOp \/ ForEachOp
Spec == Init /\ [][Next]_vars

(***************************************************************************)
(* Closing discipline (Spec).                                              *)
(***************************************************************************)
\* the goroutine that produces into chans[c], and whether every goroutine
\* sending on chans[c] has returned
Producer(c) == IF c = 1 THEN Task("source", 0) ELSE Task("stage", c - 1)
ProducersDone(c) ==
    IF c = 1 THEN src.pc = "done"
    ELSE /\ stages[c - 1].pc = "done"
         /\ \A j \in 1..Len(stages[c - 1].w) : stages[c - 1].w[j].pc = "done"

\* C10: every channel the engine created is closed at most once, by the
\* goroutine producing into it and by no consumer or terminal operation,
\* when every goroutine sending on it has returned; nothing is sent on a
\* closed channel.
C10_ClosingDiscipline ==
    \A c \in 1..Len(chans) :
        /\ chans[c].closes <= 1
        /\ chans[c].closers \subseteq {Producer(c)}
        /\ ~chans[c].lateSend
        /\ chans[c].closes > 0 => ProducersDone(c)

\* a parallel stage has closed its output after its workers sent on it, and
\* the terminal operation has returned
C10_Witness ==
    /\ Returned
    /\ \E k \in ParallelStages :
          /\ chans[k + 1].closes = 1
          /\ chans[k + 1].closers = {Task("stage", k)}
          /\ chans[k].closes = 1
    /\ Len(term.arrived) = MaxAnyLen

(***************************************************************************)
(* Parallel called on a Stream after a stage was called on it (SpecRace).  *)
(***************************************************************************)
\* a slice, a stage, Parallel on the Stream the stage was called on, Collect
RaceProgs ==
    {<<SliceCall, st, Call("ParallelPrev", n, NoArg), CollectCall>> :
        st \in ParStageCalls, n \in 2..MaxWorkers}
      \cup {<<SliceCall, Call("Parallel", 2, NoArg), st,
              Call("ParallelPrev", 1, NoArg), CollectCall>> : st \in ParStageCalls}

InitRace == InitWith(RaceProgs, ParDatas, {FALSE}, {FALSE})
NextRace ==
    \/ SliceSource \/ CallParallel \/ CallParallelPrev \/ CallMap \/ CallFilter
    \/ SeqStage \/ ParStage \/ CollectOp
SpecRace == InitRace /\ [][NextRace]_vars

\* s.workers as Map or Filter read it in the caller's goroutine:
\* out := make(chan R, s.workers)
WorkersAtCall(k) == chans[k + 1].cap

\* C11 as claimed: a stage runs as the worker count at the moment of its call
\* says, whatever Parallel is called on the same Stream afterwards: it takes
\* the sequential path exactly when that count is 1, and otherwise spawns
\* exactly that many workers before it waits for them.
C11_WorkersFixedAtCall ==
    \A k \in 1..Len(stages) :
        /\ stages[k].pc \in {"recv", "send"} => WorkersAtCall(k) = 1
        /\ stages[k].pc = "spawn" => WorkersAtCall(k) > 1
        /\ Len(stages[k].w) <= WorkersAtCall(k)
        /\ (stages[k].pc \in {"wait", "close", "done"} /\ WorkersAtCall(k) > 1)
              => Len(stages[k].w) = WorkersAtCall(k)

(***************************************************************************)
(* Worker counts under any sequence of Parallel, Map and Filter calls      *)
(* (SpecConfig).                                                           *)
(***************************************************************************)
MaxCalls == 2

\* each source, up to MaxCalls calls of Parallel (negative, zero, one, more),
\* Map and Filter in any order, then Collect
ConfigCalls ==
    {Call("Parallel", n, NoArg) : n \in {-1, 0, 1, MaxWorkers}} \cup ParStageCalls
ConfigProgs ==
    {<<s>> \o m \o <<CollectCall>> : s \in SourceCalls, m \in SeqsUpTo(ConfigCalls, MaxCalls)}

InitConfig == InitWith(ConfigProgs, {<<1>>}, {TRUE}, {FALSE})
NextConfig ==
    \/ SliceSource \/ ChanSource \/ ChanSourceEnd \/ GenSource
    \/ CallParallel \/ CallMap \/ CallFilter \/ SeqStage \/ ParStage \/ CollectOp
SpecConfig == InitConfig /\ [][NextConfig]_vars

RECURSIVE WorkersAfter(_)
\* the worker count of every Stream created by the calls p, oldest first
WorkersAfter(p) ==
    IF p = <<>> THEN <<>>
    ELSE LET c == p[Len(p)]
             before == WorkersAfter(SubSeq(p, 1, Len(p) - 1))
         IN  IF c.op \in {"NewSliceStream", "NewChanStream", "Generator"} THEN <<1>>
             ELSE IF c.op = "Parallel"
                  THEN [before EXCEPT ![Len(before)] = IF c.n > 0 THEN c.n ELSE 1]
             ELSE IF c.op \in {"Map", "Filter"}
                  THEN Append(before, before[Len(before)])
             ELSE before

\* C12: the worker count of every Stream is at least 1 after any sequence of
\* calls: a constructor sets 1, Parallel(w) sets 1 for w <= 0 and w for
\* w > 0, and the Stream Map or Filter returns carries the worker count of
\* the Stream it was called on.
C12_WorkersPositive ==
    /\ \A h \in 1..Len(hw) : hw[h] >= 1
    /\ hw = WorkersAfter(SubSeq(prog, 1, cpc - 1))

\* Parallel(-1) set the worker count 1, and the Stream the next stage
\* returned carries it
C12_Witness ==
    /\ Returned
    /\ prog[2].op = "Parallel" /\ prog[2].n = -1
    /\ prog[3].op \in {"Map", "Filter"}
    /\ hw = <<1, 1>>

(***************************************************************************)
(* No element is lost on its way (Spec).                                   *)
(***************************************************************************)
\* the elements that have not reached the stream's first channel: for a
\* slice those the producer has not sent; for a caller's channel those its
\* owner has not sent, those buffered in it and the one the relay holds; for
\* a generator those it has not yielded and the one the producer holds
NotProduced ==
    IF prog[1].op = "NewSliceStream" THEN Unsent
    ELSE IF prog[1].op = "NewChanStream"
         THEN (IF src.pc = "send" THEN <<src.hold>> ELSE <<>>)
                  \o ext.buf \o SubSeq(data, ext.sent + 1, Len(data))
    ELSE (IF src.pc = "send" THEN <<src.hold>> ELSE <<>>)
             \o SubSeq(data, src.i + 1, Len(data))

\* every element that has not reached the terminal operation, as the output
\* the remaining stages make of it
InFlight ==
    ApplyStages(StagesFrom(1), NotProduced)
        \o Flatten([c \in 1..Len(chans) |-> ApplyStages(StagesFrom(c), chans[c].buf)])
        \o Flatten([k \in 1..Len(stages) |-> ApplyStages(StagesFrom(k + 1), HeldBy(k))])

\* s and t hold the same elements, each as many times
Occurrences(s, v) == Cardinality({i \in 1..Len(s) : s[i] = v})
SameElements(s, t) ==
    /\ Len(s) = Len(t)
    /\ \A i \in 1..Len(t) : Occurrences(s, t[i]) = Occurrences(t, t[i])

\* the result of the terminal operation is made of the elements it received
Reflected ==
    /\ term.kind = "collect" => term.retSeq = term.arrived
    /\ term.kind = "reduce" =>
          (term.arrived = <<>>
             \/ term.retVal = FoldLeft(term.fn, Head(term.arrived), Tail(term.arrived)))
    /\ term.kind = "foreach" =>
          term.calls = [i \in 1..Len(term.arrived) |-> <<term.arrived[i]>>]

\* C13 as claimed: whenever a terminal operation has returned, a cancelled
\* Collect included, no element is left in a channel or in the hands of a
\* goroutine, and the result is made of every element no Filter rejects.
C13_NoDropAtReturn ==
    Returned => /\ InFlight = <<>>
                /\ Reflected
                /\ SameElements(term.arrived, Expected)

\* C13, amended: at any time the elements the terminal operation received
\* and those still on their way make up what the stages produce from the
\* source, so none is lost; and when the terminal operation returns without
\* a cancellation error, none is left on its way and its result is made of
\* all of them.
C13_NoSilentDrop ==
    /\ SameElements(term.arrived \o InFlight, Expected)
    /\ (Returned /\ term.err \in {"nil", "ErrEmptyStream"})
          => /\ InFlight = <<>>
             /\ Reflected
             /\ SameElements(term.arrived, Expected)

\* a Filter rejected an element, a parallel Map transformed the others, and
\* the terminal operation returned them
C13_Witness ==
    /\ Returned /\ term.err = "nil"
    /\ Len(stages) = 2 /\ ParallelStages # {}
    /\ Len(data) = MaxAnyLen
    /\ Len(term.arrived) \in 1..(Len(data) - 1)
    /\ InFlight = <<>>

(***************************************************************************)
(* End-to-end order (Spec).                                                *)
(***************************************************************************)
\* C14: as long as no stage of the pipeline runs more than one worker, the
\* terminal operation receives the surviving elements in the order of the
\* source: what it has received is a prefix of what the stages make of the
\* source with one worker each, and all of it when it returns successfully.
\* So two elements arrive out of order only downstream of a stage running
\* several workers.
C14_SequentialOrder ==
    (\A k \in 1..Len(stages) : Len(stages[k].w) <= 1)
        => /\ IsPrefix(term.arrived, Expected)
           /\ (Returned /\ term.err \in {"nil", "ErrEmptyStream"}) => term.arrived = Expected

\* two chained stages with one worker each delivered two distinct elements
\* in the source's order
C14_Witness ==
    /\ Returned
    /\ Len(stages) = 2
    /\ \A k \in 1..Len(stages) : WorkersAtCall(k) = 1 /\ stages[k].pc = "done"
    /\ Len(term.arrived) = MaxAnyLen /\ Distinct(term.arrived)
    /\ term.arrived = Expected

(***************************************************************************)
(* The pipeline's goroutines after a cancelled Collect (Spec).             *)
(***************************************************************************)
\* a producer, relay, stage or worker is at its send on the channel Collect
\* was reading, and the channel is full
BlockedOnLast ==
    /\ ~CanSend(chans[term.ch])
    /\ IF term.ch = 1 THEN src.pc = "send" /\ (src.kind = "slice" => src.i <= Len(data))
       ELSE \/ stages[term.ch - 1].pc = "send"
            \/ \E j \in 1..Len(stages[term.ch - 1].w) : stages[term.ch - 1].w[j].pc = "send"

\* C15 as claimed: once Collect has returned its context's error, no
\* goroutine of the pipeline is left at a send that cannot complete; Collect
\* was the only receiver of its channel, so such a goroutine stays blocked
\* for ever.
C15_CancelStopsTasks ==
    (term.kind = "collect" /\ Returned /\ term.err \in {"Canceled", "DeadlineExceeded"})
        => ~BlockedOnLast

(***************************************************************************)
(* ForEach (SpecForEach).                                                  *)
(***************************************************************************)
\* a slice, no stage or one sequential stage, then ForEach
ForEachProgs ==
    {<<SliceCall, ForEachCall>>} \cup {<<SliceCall, st, ForEachCall>> : st \in StageCalls}

InitForEach == InitWith(ForEachProgs, Datas, {FALSE}, {FALSE})
NextForEach == SliceSource \/ CallMap \/ CallFilter \/ SeqStage \/ ForEachOp
SpecForEach == InitForEach /\ [][NextForEach]_vars

\* C16: ForEach has invoked fn once on each element it received, in the
\* order of arrival, and on nothing else; it has not returned before the
\* channel is closed and drained; it returns a nil error, for any elements
\* and for none; with sequential stages the elements are those the stages
\* make of the slice, in order.
C16_ForEach ==
    term.kind = "foreach"
        => /\ term.calls = [i \in 1..Len(term.arrived) |-> <<term.arrived[i]>>]
           /\ IsPrefix(term.arrived, Expected)
           /\ ~Returned => term.err = "none"
           /\ Returned => /\ term.err = "nil"
                          /\ Exhausted(chans[term.ch])
                          /\ term.arrived = Expected

\* fn was invoked on every element of a slice with a repeated element
C16_Witness ==
    /\ term.kind = "foreach" /\ Returned /\ term.err = "nil"
    /\ Len(prog) = 2 /\ Len(data) = MaxLen
    /\ data[1] = data[2] /\ data[2] # data[3]
    /\ term.calls = [i \in 1..Len(data) |-> <<data[i]>>]

\* ForEach on a stream with no element returned without invoking fn
C16_EmptyReached ==
    /\ term.kind = "foreach" /\ Returned /\ term.err = "nil"
    /\ Len(data) = MaxLen /\ Expected = <<>> /\ term.calls = <<>>

(***************************************************************************)
(* The barrier of a parallel stage (SpecPar).                              *)
(***************************************************************************)
\* nothing is left upstream of the output channel of stage k: the producer
\* has sent everything, the channels up to the stage's input are empty and
\* no goroutine of a stage up to k holds an element
DrainedUpTo(k) ==
    /\ NotProduced = <<>>
    /\ \A c \in 1..k : chans[c].buf = <<>>
    /\ \A i \in 1..k : HeldBy(i) = <<>>

\* the caller calls Parallel on a Stream after calling a stage on it (C11)
Raced == \E i \in 1..Len(prog) : prog[i].op = "ParallelPrev"

\* C17: when the output channel of a stage running N > 1 workers is closed,
\* its input channel is closed and empty, all N workers have returned, none
\* holds an element, and every element taken from upstream has been written
\* downstream or rejected: all that the stages make of the source is in the
\* channels downstream or received.  N is the worker count at the stage
\* call unless Parallel is called on that Stream again.
C17_Barrier ==
    \A k \in 1..Len(stages) :
        chans[k + 1].closes > 0
            => /\ (WorkersAtCall(k) > 1 /\ ~Raced) => Len(stages[k].w) = WorkersAtCall(k)
               /\ Len(stages[k].w) > 1
                     => /\ Exhausted(chans[k])
                        /\ \A j \in 1..Len(stages[k].w) : stages[k].w[j].pc = "done"
                        /\ stages[k].wg = 0
                        /\ DrainedUpTo(k)
                        /\ SameElements(term.arrived \o InFlight, Expected)

\* a stage closed its output after MaxWorkers workers shared the elements,
\* which arrived in another order than the source's
C17_Witness ==
    \E k \in 1..Len(stages) :
        /\ WorkersAtCall(k) = MaxWorkers /\ chans[k + 1].closes = 1
        /\ Len(stages[k].w) = MaxWorkers
        /\ Len(term.arrived) = MaxParLen
        /\ ~IsPrefix(term.arrived, Expected)

(***************************************************************************)
(* Cancellation and the terminal operations (SpecAsym, FairSpecAsym).      *)
(***************************************************************************)
\* a caller's channel that is closed or left open, then Collect, Reduce or
\* ForEach, while the caller's context can be cancelled
AsymProgs ==
    {<<Call("NewChanStream", 0, NoArg), t>> : t \in {CollectCall, ForEachCall} \cup ReduceCalls}

InitAsym == InitWith(AsymProgs, Datas, BOOLEAN, {TRUE})
NextAsym ==
    \/ ChanSource \/ ChanSourceEnd \/ CollectOp \/ CollectCancel \/ Cancel
    \/ ReduceOp \/ ForEachOp
SpecAsym == InitAsym /\ [][NextAsym]_vars

\* as FairCancel, and the caller's goroutine is scheduled in Reduce and
\* ForEach too
FairAsym ==
    /\ FairCancel
    /\ WF_vars(ReduceOp \/ ForEachOp)
FairSpecAsym == SpecAsym /\ FairAsym

\* C18: Reduce and ForEach have not returned unless their channel is closed
\* and drained, which needs the caller's channel closed; on a caller's
\* channel that is never closed they never return, whether the context is
\* done or not, whereas Collect on such a channel returns once the context
\* is done.
C18_Asymmetry ==
    /\ [](term.kind \in {"reduce", "foreach"}
            => /\ Returned => (Exhausted(chans[term.ch]) /\ ext.closed)
               /\ ~extCloses => ~Returned)
    /\ (term.kind = "collect" /\ ~extCloses /\ ctx # "active") ~> Returned

\* Reduce has received every element of a channel left open, the context
\* is done, and Reduce is still at its receive
C18_Witness ==
    /\ term.kind = "reduce" /\ term.pc = "recv"
    /\ ~extCloses /\ ctx # "active"
    /\ Len(term.arrived) = MaxLen

(***************************************************************************)
(* The producer of NewSliceStream (FairSpecSlice).                         *)
(***************************************************************************)
\* the producer goroutine is scheduled; nothing makes the caller go on to
\* call a stage or a terminal operation, nor a stage or Collect take a step
FairSpecSlice == SpecSeq /\ WF_vars(SliceSend \/ SliceClose)

\* C19: the producer of NewSliceStream is never at a send that cannot
\* complete; the channel holds, in the slice's order, the elements sent and
\* not yet received, all those sent when nothing has read yet; and the
\* producer sends every element, closes the channel and returns, whether or
\* not anything ever reads from the stream.
C19_SliceProducer ==
    /\ [](src.kind = "slice"
            => /\ (src.pc = "send" /\ src.i <= Len(data))
                     => (chans[1].closes = 0 /\ Len(chans[1].buf) < chans[1].cap)
               /\ chans[1].buf = SubSeq(data, src.i - Len(chans[1].buf), src.i - 1)
               /\ (stages = <<>> /\ term.kind = "none")
                     => chans[1].buf = SubSeq(data, 1, src.i - 1)
               /\ src.pc = "done" => (src.i = Len(data) + 1 /\ chans[1].closes = 1))
    /\ (src.kind = "slice") ~> (src.pc = "done")

\* the producer has sent a whole slice and closed the channel before any
\* stage or terminal operation was called
C19_Witness ==
    /\ src.kind = "slice" /\ src.pc = "done"
    /\ stages = <<>> /\ term.kind = "none"
    /\ chans[1].closes = 1
    /\ chans[1].buf = data /\ Len(data) = MaxLen

(***************************************************************************)
(* The relay of NewChanStream (SpecCancel).                                *)
(***************************************************************************)
\* C20: the elements Collect received, the one in the stream's channel, the
\* one the relay holds and those in the caller's channel are, in this order,
\* exactly the elements sent on the caller's channel, so each is forwarded
\* once and in order; the stream's channel is closed only when the caller's
\* channel is closed and drained and the relay has returned; the caller's
\* channel is closed by its owner only, and no step of the relay closes it.
C20_Relay ==
    /\ [](src.kind = "chan"
            => /\ term.arrived \o chans[1].buf
                      \o (IF src.pc = "send" THEN <<src.hold>> ELSE <<>>) \o ext.buf
                    = SubSeq(data, 1, ext.sent)
               /\ chans[1].closes > 0
                     => (ext.closed /\ ext.buf = <<>> /\ src.pc = "done")
               /\ ext.closed => extCloses)
    /\ [][(RelayRecv \/ RelaySend \/ RelayClose) => ext'.closed = ext.closed]_vars

\* the owner closed its channel after MaxLen distinct elements, the relay
\* forwarded them and closed the stream's channel, and Collect returned them
C20_Witness ==
    /\ src.kind = "chan" /\ src.pc = "done"
    /\ ext.closed /\ chans[1].closes = 1
    /\ Returned /\ term.err = "nil"
    /\ term.retSeq = data /\ Len(data) = MaxLen /\ Distinct(data)

(***************************************************************************)
(* The calls of the generator (SpecGenPar).                                *)
(***************************************************************************)
\* a generator read by Collect directly or through a Map with one worker or
\* several
GenParProgs ==
    {<<Call("Generator", 0, NoArg), CollectCall>>,
     <<Call("Generator", 0, NoArg), Call("Map", 0, "double"), CollectCall>>}
      \cup {<<Call("Generator", 0, NoArg), par, Call("Map", 0, "double"), CollectCall>> :
               par \in ParallelCalls}

InitGenPar == InitWith(GenParProgs, ParDatas, {FALSE}, {FALSE})
NextGenPar == GenSource \/ CallParallel \/ CallMap \/ SeqStage \/ ParStage \/ CollectOp
SpecGenPar == InitGenPar /\ [][NextGenPar]_vars

\* how many elements the producer has handed on or holds at its send, and
\* how many are downstream of it: in a channel, held by a stage or a
\* worker, or received by the terminal operation (Map keeps their number)
GenYielded == IF src.i <= Len(data) THEN src.i ELSE Len(data)
Downstream ==
    Len(term.arrived)
      + Len(Flatten([c \in 1..Len(chans) |-> chans[c].buf]))
      + Len(Flatten([k \in 1..Len(stages) |-> HeldBy(k)]))
      + (IF src.pc = "send" THEN 1 ELSE 0)

\* C21: gen is invoked by the producer goroutine only, at its call site, one
\* invocation per step of that goroutine and in no step of a stage, a
\* worker or the terminal operation, whatever the worker count downstream;
\* the elements downstream are as many as the invocations that returned
\* ok = true; the first invocation returning ok = false is the last, and the
\* channel is closed after it and not before.
C21_GeneratorCalls ==
    /\ [](src.kind = "gen"
            => /\ src.i <= Len(data) + 1
               /\ Downstream = GenYielded
               /\ src.pc \in {"close", "done"} <=> src.i = Len(data) + 1
               /\ chans[1].closes > 0 <=> src.pc = "done")
    /\ [][(src.kind = "gen" /\ src'.i # src.i)
             => /\ src.pc = "call" /\ src'.i = src.i + 1
                /\ UNCHANGED <<chans, stages, term>>]_vars
    /\ [][(src.kind = "gen" /\ src.pc \in {"close", "done"}) => src'.i = src.i]_vars

\* gen reported exhaustion after MaxParLen elements that MaxWorkers workers
\* of a Map shared, and Collect returned
C21_Witness ==
    /\ src.kind = "gen" /\ src.pc = "done" /\ Returned
    /\ Len(data) = MaxParLen /\ src.i = MaxParLen + 1
    /\ \E k \in 1..Len(stages) : Len(stages[k].w) = MaxWorkers
    /\ Len(term.arrived) = MaxParLen

(***************************************************************************)
(* Termination of a pipeline over a finite source (FairSpecLive).          *)
(***************************************************************************)
\* each source, closed after its last element; no stage, a sequential
\* stage, a parallel one, a sequential stage followed by a parallel one, or
\* a parallel stage followed by a sequential one; each terminal operation,
\* Collect with a context that is never done
LiveStages ==
    {<<>>, <<Call("Filter", 0, "even")>>,
     <<Call("Parallel", 2, NoArg), Call("Map", 0, "double")>>,
     <<Call("Filter", 0, "gt1"), Call("Parallel", 2, NoArg), Call("Map", 0, "square")>>,
     <<Call("Parallel", 2, NoArg), Call("Filter", 0, "even"),
       Call("Parallel", 1, NoArg), Call("Map", 0, "double")>>}
\* the indexes of the stages of these pipelines and of their workers
LiveStageIdx == UNION {1..Len(StageCallsOf(m)) : m \in LiveStages}
LiveWorkerIdx == UNION {UNION {1..m[i].n : i \in 1..Len(m)} : m \in LiveStages}
LiveProgs == {<<s>> \o m \o <<t>> : s \in SourceCalls, m \in LiveStages, t \in AnyTerminals}

\* the sources deliver 1, 2, ..., n
LiveDatas == {[i \in 1..n |-> i] : n \in 0..MaxParLen}
InitLive == InitWith(LiveProgs, LiveDatas, {TRUE}, {FALSE})
NextLive ==
    \/ SliceSource \/ ChanSource \/ ChanSourceEnd \/ GenSource
    \/ CallParallel \/ CallMap \/ CallFilter \/ SeqStage \/ ParStage
    \/ CollectOp \/ ReduceOp \/ ForEachOp
SpecLive == InitLive /\ [][NextLive]_vars

\* the steps of each goroutine: the caller's, which makes the calls and runs
\* the terminal operation; the producer's or relay's; the owner of the
\* caller's channel; the goroutine of stage k; worker j of stage k
CallerStep ==
    \/ CallNewSliceStream \/ CallNewChanStream \/ CallGenerator
    \/ CallParallel \/ CallMap \/ CallFilter \/ CollectOp \/ ReduceOp \/ ForEachOp
ProducerStep ==
    \/ SliceSend \/ SliceClose \/ RelayRecv \/ RelaySend \/ RelayClose
    \/ GenCall \/ GenSend \/ GenClose
OwnerStep == ExtSend \/ ExtClose
StageStep(k) ==
    /\ k <= Len(stages)
    /\ \/ StageStart(k) \/ SeqRecv(k) \/ SeqSend(k) \/ SeqExit(k)
       \/ SpawnWorker(k) \/ SpawnDone(k) \/ StageWait(k) \/ StageClose(k)
WorkerStep(k, j) ==
    /\ k <= Len(stages) /\ j <= Len(stages[k].w)
    /\ WorkerRecv(k, j) \/ WorkerSend(k, j) \/ WorkerExit(k, j)

\* every goroutine that can take a step is scheduled, and the owner of the
\* caller's channel sends its elements and closes it
FairLive ==
    /\ WF_vars(CallerStep)
    /\ WF_vars(ProducerStep)
    /\ WF_vars(OwnerStep)
    /\ \A k \in LiveStageIdx : WF_vars(StageStep(k))
    /\ \A k \in LiveStageIdx : \A j \in LiveWorkerIdx : WF_vars(WorkerStep(k, j))
FairSpecLive == SpecLive /\ FairLive

\* the terminal operation has returned, every goroutine of the pipeline has
\* returned, and every channel is closed and empty
AllDone ==
    /\ Returned
    /\ src.pc = "done"
    /\ Len(stages) = Len(StageCallsOf(prog))
    /\ \A k \in 1..Len(stages) :
          /\ stages[k].pc = "done"
          /\ \A j \in 1..Len(stages[k].w) : stages[k].w[j].pc = "done"
    /\ \A c \in 1..Len(chans) : Exhausted(chans[c])
    /\ prog[1].op = "NewChanStream" => (ext.closed /\ ext.buf = <<>>)

\* C22: on a finite source, through any of the chains of stages, Reduce,
\* ForEach and a never-cancelled Collect eventually return, and every
\* producer, stage and worker goroutine eventually returns, leaving every
\* channel closed and empty, for good.
C22_Terminates == <>[]AllDone

\* a pipeline of a sequential and a parallel stage has come to its end
C22_Witness ==
    /\ AllDone
    /\ Len(stages) = 2 /\ ParallelStages # {}
    /\ Len(data) = MaxParLen /\ Len(term.arrived) >= 1

(***************************************************************************)
(* How far a producer runs ahead of its consumer (SpecAhead).              *)
(***************************************************************************)
MaxAhead == 4

\* each source, closed after its last element, read by Collect directly,
\* through one sequential stage, or through one stage with two workers
AheadStages ==
    {<<>>} \cup {<<st>> : st \in ParStageCalls}
           \cup {<<Call("Parallel", 2, NoArg), st>> : st \in ParStageCalls}
AheadProgs == {<<s>> \o m \o <<CollectCall>> : s \in SourceCalls, m \in AheadStages}
\* up to MaxAhead elements: all odd, all even, or alternating
AheadDatas ==
    {[i \in 1..n |-> v] : n \in 0..MaxAhead, v \in {1, 2}}
        \cup {[i \in 1..n |-> 1 + (i % 2)] : n \in 0..MaxAhead}

InitAhead == InitWith(AheadProgs, AheadDatas, {TRUE}, {FALSE})
NextAhead ==
    \/ SliceSource \/ ChanSource \/ ChanSourceEnd \/ GenSource
    \/ CallParallel \/ CallMap \/ CallFilter \/ SeqStage \/ ParStage \/ CollectOp
SpecAhead == InitAhead /\ [][NextAhead]_vars

\* how many elements the producer or relay has sent on the stream's first
\* channel, and how many of them have been taken from it
SentFirst ==
    IF src.kind = "slice" THEN src.i - 1
    ELSE IF src.kind = "gen" THEN GenYielded - (IF src.pc = "send" THEN 1 ELSE 0)
    ELSE IF src.kind = "chan" THEN src.i - (IF src.pc = "send" THEN 1 ELSE 0)
    ELSE 0
TakenFirst == IF chans = <<>> THEN 0 ELSE SentFirst - Len(chans[1].buf)

\* the elements are taken from the first channel in the order of the source,
\* whichever worker takes them; those among them the stage does not reject
AcceptedFirst == Len(ApplyStages(StageCallsOf(prog), SubSeq(data, 1, TakenFirst)))

\* the capacity the code gives each channel
CapacityOf(c) ==
    IF c > 1 THEN hw[c - 1]
    ELSE IF src.kind = "slice" THEN Len(data) ELSE 1

\* no channel holds more than its capacity, and a generator has been
\* invoked at most twice more than elements were taken from its channel
Occupancy ==
    /\ \A c \in 1..Len(chans) :
          chans[c].cap = CapacityOf(c) /\ Len(chans[c].buf) <= chans[c].cap
    /\ src.kind = "gen" => src.i <= TakenFirst + 2

\* C23 as claimed: Occupancy, and a stage with N workers has taken from
\* upstream at most 2N elements more than were taken from its output.
C23_ReadAhead ==
    /\ Occupancy
    /\ Len(stages) = 1 => TakenFirst <= Len(term.arrived) + 2 * WorkersAtCall(1)

\* C23, amended: Occupancy, and of the elements a stage with N workers has
\* taken from upstream and not rejected, at most 2N have not been taken
\* from its output: N in the output channel and one in the hands of each
\* worker.
C23_ReadAheadAccepted ==
    /\ Occupancy
    /\ Len(stages) = 1
          => /\ AcceptedFirst <= Len(term.arrived) + 2 * WorkersAtCall(1)
             /\ AcceptedFirst = Len(term.arrived) + Len(chans[2].buf) + Len(HeldBy(1))
             /\ Len(HeldBy(1)) <= WorkersAtCall(1)

\* the two workers of a stage have taken 2N = 4 elements from a generator's
\* channel, none of which Collect has received: two are in the output
\* channel and each worker holds one at its send
C23_Witness ==
    /\ src.kind = "gen"
    /\ Len(stages) = 1 /\ WorkersAtCall(1) = 2 /\ Len(stages[1].w) = 2
    /\ TakenFirst = 4 /\ AcceptedFirst = 4 /\ term.arrived = <<>>
    /\ Len(chans[2].buf) = 2 /\ Len(HeldBy(1)) = 2

\* a generator has been invoked twice more than elements were taken from
\* its channel: one element is in the channel, the producer holds the next
C23_GeneratorAhead ==
    /\ src.kind = "gen" /\ src.pc = "send"
    /\ src.i = TakenFirst + 2 /\ Len(chans[1].buf) = 1

=============================================================================
